---- MODULE Spec2Model ----
(***************************************************************************)
(* Emotion Path Helper (src/code.c): the graph store, the personalized     *)
(* Dijkstra planner and the text persistence codec.                        *)
(*                                                                         *)
(* Representation.                                                         *)
(*  - A name or a text is a sequence of one-character strings.             *)
(*  - A NULL char* is the value NULL below (no text equals it).            *)
(*  - Node indices are the C indices 0..count-1; -1 is "not found".        *)
(*  - valence and baseline_intensity are held in thousandths, the          *)
(*    precision "%.3f" writes; weights are held in tenths.                 *)
(*  - A personalized cost is held as the exact numerator over CostDen      *)
(*    (floating rounding is not modelled).                                 *)
(***************************************************************************)
EXTENDS Integers, Sequences, FiniteSets, TLC

VARIABLES g, file, last, ops

vars == <<g, file, last, ops>>

(* ---------------- program constants ---------------- *)

MAX_NAME_LEN == 48
MAX_LINE == 1024
FLT_MAX == 2000000000

NULL == <<"NULL">>

(* ---------------- bounds of the model ---------------- *)

MaxOps == 3

\* The longest of the texts tried in every combination of characters.
MaxLen == 3

(* ---------------- names the code spells out ---------------- *)

Overwhelmed == <<"o","v","e","r","w","h","e","l","m","e","d">>
Anxious == <<"a","n","x","i","o","u","s">>
Frustrated == <<"f","r","u","s","t","r","a","t","e","d">>
Angry == <<"a","n","g","r","y">>
Sad == <<"s","a","d">>
Lonely == <<"l","o","n","e","l","y">>
Grounded == <<"g","r","o","u","n","d","e","d">>
Calm == <<"c","a","l","m">>
Hopeful == <<"h","o","p","e","f","u","l">>
Happy == <<"h","a","p","p","y">>
Peaceful == <<"p","e","a","c","e","f","u","l">>

Min(a, b) == IF a < b THEN a ELSE b

\* e, with v evaluated first (the loops below hand on a computed value).
Then(v, e) == IF v = v THEN e ELSE e

(* ---------------- graph store ---------------- *)

\* The node at C index i.
NodeAt(gr, i) == gr[i + 1]

\* graph_find: the first index whose stored name equals name, else -1.
graph_find(gr, name) ==
    IF \E i \in 1..Len(gr) : gr[i].name = name
    THEN (CHOOSE i \in 1..Len(gr) :
              /\ gr[i].name = name
              /\ \A j \in 1..(i - 1) : gr[j].name # name) - 1
    ELSE -1

\* strncpy(n->name, name, MAX_NAME_LEN-1) and the terminator at MAX_NAME_LEN-1.
StoredName(name) == SubSeq(name, 1, Min(Len(name), MAX_NAME_LEN - 1))

\* A mutant of graph_add_node: the lookup is skipped, a node is always appended.
graph_add_node_nofind(gr, name, valence, baseline) ==
    [g |-> Append(gr, [name |-> StoredName(name), valence |-> valence,
                       baseline |-> baseline, edges |-> <<>>, tips |-> <<>>]),
     idx |-> Len(gr)]

\* graph_add_node: the graph after the call and the index returned.
graph_add_node(gr, name, valence, baseline) ==
    LET idx == graph_find(gr, name) IN
    IF idx # -1 THEN [g |-> gr, idx |-> idx]
    ELSE [g |-> Append(gr, [name |-> StoredName(name), valence |-> valence,
                            baseline |-> baseline, edges |-> <<>>, tips |-> <<>>]),
          idx |-> Len(gr)]

\* is_positive_goal_name
is_positive_goal_name(name) == name \in {Happy, Calm, Hopeful, Peaceful}

\* A mutant of the forbidden-transition test: it never refuses.
ForbiddenNever(from, to) == FALSE

\* The test at the head of graph_add_edge (and of menu option 5).
Forbidden(from, to) == from = Overwhelmed /\ is_positive_goal_name(to)

\* A mutant of the clamp: the weight is stored as given.
ClampNone(weight) == weight

\* (weight < 0.0f) ? 0.0f : weight
Clamp(weight) == IF weight < 0 THEN 0 ELSE weight

\* Append edge e to the edge list of the node at index i.
PushEdge(gr, i, e) ==
    [gr EXCEPT ![i + 1].edges = Append(@, e)]

\* graph_add_edge: the graph after the call.
graph_add_edge(gr, from, to, weight, procedure) ==
    IF Forbidden(from, to) THEN gr
    ELSE
      LET ru == IF graph_find(gr, from) = -1
                THEN graph_add_node(gr, from, -500, 5000)
                ELSE [g |-> gr, idx |-> graph_find(gr, from)]
          rv == IF graph_find(ru.g, to) = -1
                THEN graph_add_node(ru.g, to, 0, 5000)
                ELSE [g |-> ru.g, idx |-> graph_find(ru.g, to)]
          u == ru.idx
          v == rv.idx
          g1 == PushEdge(rv.g, u, [to |-> v, weight |-> Clamp(weight),
                                   procedure |-> procedure])
      IN PushEdge(g1, v, [to |-> u, weight |-> Clamp(weight), procedure |-> NULL])

\* graph_add_tip: the graph after the call.
graph_add_tip(gr, emotion, tip_text) ==
    LET r == IF graph_find(gr, emotion) = -1
             THEN graph_add_node(gr, emotion, -200, 5000)
             ELSE [g |-> gr, idx |-> graph_find(gr, emotion)]
    IN [r.g EXCEPT ![r.idx + 1].tips = Append(@, tip_text)]

\* The edge lookups of interactive_menu: the first edge of node u whose target
\* is v, as its position in the edge list (1-based), 0 when there is none.
FindEdgePos(gr, u, v) ==
    LET es == NodeAt(gr, u).edges IN
    IF \E e \in 1..Len(es) : es[e].to = v
    THEN CHOOSE e \in 1..Len(es) :
             /\ es[e].to = v
             /\ \A k \in 1..(e - 1) : es[k].to # v
    ELSE 0

(* ---------------- personalized Dijkstra ---------------- *)

\* Costs are numerators over CostDen = 10 * 20 * 5 * 20000:
\* weight in tenths, 0.85 = 17/20, 0.8 = 4/5, 1 - (1 - valence) * 0.05 =
\* (19000 + valence in thousandths) / 20000.

\* if (g->nodes[v].tips_count > 0) w *= 0.85f;
TipMul(gr, v) == IF Len(NodeAt(gr, v).tips) > 0 THEN 17 ELSE 20

\* if (e->procedure) w *= 0.8f;   (a non-NULL pointer, whatever it points at)
ProcMul(e) == IF e.procedure # NULL THEN 4 ELSE 5

\* w * (1.0f - (1.0f - valence) * 0.05f)
ValMul(gr, v) == 19000 + NodeAt(gr, v).valence

\* The weight the relaxation adds for edge e.
PersonalizedW(gr, e) == e.weight * TipMul(gr, e.to) * ProcMul(e) * ValMul(gr, e.to)

Idx(gr) == 0..(Len(gr) - 1)

\* A mutant of the selection scan: the first unvisited finite node, not the nearest.
SelectFirst(gr, st) ==
    LET cand == {i \in Idx(gr) : ~st.visited[i] /\ st.dist[i] < FLT_MAX} IN
    IF cand = {} THEN -1
    ELSE CHOOSE i \in cand : \A j \in cand : i <= j

\* The selection scan: the first unvisited node of least dist below FLT_MAX, or -1.
SelectMin(gr, st) ==
    LET cand == {i \in Idx(gr) : ~st.visited[i] /\ st.dist[i] < FLT_MAX} IN
    IF cand = {} THEN -1
    ELSE CHOOSE i \in cand :
             /\ \A j \in cand : st.dist[i] <= st.dist[j]
             /\ \A j \in cand : (j < i) => st.dist[j] > st.dist[i]

\* A mutant of the relaxation: the predecessor is not recorded.
RelaxOneNoPrev(gr, st, u, e) ==
    IF st.visited[e.to] THEN st
    ELSE LET alt == st.dist[u] + PersonalizedW(gr, e) IN
         IF alt < st.dist[e.to] THEN [st EXCEPT !.dist[e.to] = alt] ELSE st

\* One relaxation: edge e out of the node u being visited.
RelaxOne(gr, st, u, e) ==
    IF st.visited[e.to] THEN st
    ELSE LET alt == st.dist[u] + PersonalizedW(gr, e) IN
         IF alt < st.dist[e.to]
         THEN [st EXCEPT !.dist[e.to] = alt, !.prev[e.to] = u]
         ELSE st

\* The edge loop of node u, from edge position ei (1-based) on.
RECURSIVE RelaxEdges(_, _, _, _)
RelaxEdges(gr, st, u, ei) ==
    IF ei > Len(NodeAt(gr, u).edges) THEN st
    ELSE LET nx == RelaxOne(gr, st, u, NodeAt(gr, u).edges[ei])
         IN Then(nx, RelaxEdges(gr, nx, u, ei + 1))

\* The main loop from iteration iter on.
RECURSIVE DijkstraLoop(_, _, _, _)
DijkstraLoop(gr, dest, st, iter) ==
    IF iter >= Len(gr) THEN st
    ELSE LET u == SelectMin(gr, st) IN
         IF u = -1 THEN st
         ELSE LET st1 == [st EXCEPT !.visited[u] = TRUE] IN
              IF u = dest THEN st1
              ELSE LET nx == RelaxEdges(gr, st1, u, 1)
                   IN Then(nx, DijkstraLoop(gr, dest, nx, iter + 1))

\* The predecessor chain from cur back to the source, in source-to-cur order
\* (temp[] reversed into out_path).
RECURSIVE PrevChain(_, _)
PrevChain(prev, cur) ==
    IF cur = -1 THEN <<>> ELSE Append(PrevChain(prev, prev[cur]), cur)

\* out_path[0..idx-1] overwritten, the rest of the caller's array kept.
Overwrite(old, path) ==
    IF Len(old) > Len(path) THEN path \o SubSeq(old, Len(path) + 1, Len(old)) ELSE path

\* The search state when the loop ends, for src and dest in range.
DijkstraFinal(gr, src, dest) ==
    DijkstraLoop(gr, dest,
                 [dist |-> [i \in Idx(gr) |-> IF i = src THEN 0 ELSE FLT_MAX],
                  visited |-> [i \in Idx(gr) |-> FALSE],
                  prev |-> [i \in Idx(gr) |-> -1]], 0)

\* A mutant of the test below: the unreachable case is not noticed.
UnreachedNever(st, dest) == FALSE

\* if (dist[dest] == FLT_MAX) return FLT_MAX;
Unreached(st, dest) == st.dist[dest] = FLT_MAX

\* run_dijkstra_personalized for src < count and dest < count: the value
\* returned and the caller's out_path / *out_len after the call.  out is
\* [path, len, written]; written is FALSE while *out_len was never assigned.
run_dijkstra_personalized(gr, src, dest, out) ==
    IF src < 0 \/ dest < 0 THEN [ret |-> FLT_MAX, out |-> out]
    ELSE LET st == DijkstraFinal(gr, src, dest) IN
         IF Unreached(st, dest) THEN [ret |-> FLT_MAX, out |-> out]
         ELSE LET path == PrevChain(st.prev, dest) IN
              [ret |-> st.dist[dest],
               out |-> [path |-> Overwrite(out.path, path), len |-> Len(path),
                        written |-> TRUE]]

\* int tmp_path[128], tmp_len;  (declared, not initialised)
NoOut == [path |-> <<>>, len |-> 0, written |-> FALSE]

(* ---------------- persistence ---------------- *)

Quote == "\""
Backslash == "\\"

\* What fwrite_quoted's loop writes for the characters lo..hi of s: a
\* backslash before each quote and backslash, then the character.  (The range
\* is halved, not walked, to keep the evaluation shallow on long texts; the
\* characters written are those of the loop, in its order.)
RECURSIVE EscapedRange(_, _, _)
EscapedRange(s, lo, hi) ==
    IF lo > hi THEN <<>>
    ELSE IF lo = hi
    THEN (IF s[lo] = Quote \/ s[lo] = Backslash THEN <<Backslash, s[lo]>> ELSE <<s[lo]>>)
    ELSE LET mid == (lo + hi) \div 2
             left == EscapedRange(s, lo, mid)
         IN Then(left, left \o EscapedRange(s, mid + 1, hi))

\* The body of fwrite_quoted's loop over s.
Escaped(s) == EscapedRange(s, 1, Len(s))

\* fwrite_quoted: the characters written.
fwrite_quoted(s) == <<Quote>> \o Escaped(s) \o <<Quote>>

\* One pass of parse_quoted's while loop from st = [p, buf, done]: p is the
\* position in s (1-based), buf the text so far, done whether the loop was left
\* (at the end of s, at a quote, or by the break at MAX_LINE-1 characters).
ParseStep(s, st) ==
    IF st.done \/ st.p > Len(s) \/ s[st.p] = Quote THEN [st EXCEPT !.done = TRUE]
    ELSE LET esc == s[st.p] = Backslash /\ st.p + 1 <= Len(s)
             nbuf == Append(st.buf, IF esc THEN s[st.p + 1] ELSE s[st.p])
             np == IF esc THEN st.p + 2 ELSE st.p + 1
         IN [p |-> np, buf |-> nbuf, done |-> Len(nbuf) >= MAX_LINE - 1]

\* k passes of the loop (halved, to keep the evaluation shallow on long texts).
RECURSIVE ParseRun(_, _, _)
ParseRun(s, st, k) ==
    IF k <= 0 THEN st
    ELSE IF k = 1 THEN ParseStep(s, st)
    ELSE LET half == ParseRun(s, st, k \div 2)
         IN Then(half, ParseRun(s, half, k - (k \div 2)))

\* parse_quoted's loop from position p with buf so far: the final buf.  The
\* loop advances p on every pass, so it is left within Len(s) + 1 passes.
ParseLoop(s, p, buf) ==
    ParseRun(s, [p |-> p, buf |-> buf, done |-> FALSE], Len(s) + 1).buf

\* parse_quoted: the text returned, NULL when s does not start with a quote.
parse_quoted(s) ==
    IF s = <<>> \/ Head(s) # Quote THEN NULL ELSE ParseLoop(s, 2, <<>>)

\* The NODE and TIP records of nodes i.., in the order save_graph writes them.
RECURSIVE SaveTips(_, _, _)
SaveTips(n, t, acc) ==
    IF t > Len(n.tips) THEN acc
    ELSE LET nx == Append(acc, [kind |-> "TIP", name |-> n.name,
                                quoted |-> fwrite_quoted(n.tips[t])])
         IN Then(nx, SaveTips(n, t + 1, nx))

RECURSIVE SaveNodes(_, _, _)
SaveNodes(gr, i, acc) ==
    IF i >= Len(gr) THEN acc
    ELSE LET nx == SaveTips(NodeAt(gr, i), 1,
                           Append(acc, [kind |-> "NODE", name |-> NodeAt(gr, i).name,
                                        valence |-> NodeAt(gr, i).valence,
                                        baseline |-> NodeAt(gr, i).baseline]))
         IN Then(nx, SaveNodes(gr, i + 1, nx))

\* The EDGE records of node i from edge position e on: only edges with i < to.
RECURSIVE SaveEdgesOf(_, _, _, _)
SaveEdgesOf(gr, i, e, acc) ==
    IF e > Len(NodeAt(gr, i).edges) THEN acc
    ELSE LET ed == NodeAt(gr, i).edges[e]
             nx == IF i < ed.to
                   THEN Append(acc, [kind |-> "EDGE", from |-> NodeAt(gr, i).name,
                                     to |-> NodeAt(gr, ed.to).name, weight |-> ed.weight,
                                     quoted |-> IF ed.procedure # NULL
                                                THEN fwrite_quoted(ed.procedure)
                                                ELSE <<Quote, Quote>>])
                   ELSE acc
         IN Then(nx, SaveEdgesOf(gr, i, e + 1, nx))

RECURSIVE SaveEdges(_, _, _)
SaveEdges(gr, i, acc) ==
    IF i >= Len(gr) THEN acc
    ELSE LET nx == SaveEdgesOf(gr, i, 1, acc) IN Then(nx, SaveEdges(gr, i + 1, nx))

\* save_graph once fopen succeeded: the records of the file, one per line.
SavedLines(gr) == SaveEdges(gr, 0, SaveNodes(gr, 0, <<>>))

\* load_graph on one record.
LoadLine(gr, ln) ==
    IF ln.kind = "NODE"
    THEN LET r == graph_add_node(gr, ln.name, ln.valence, ln.baseline)
             idx == graph_find(r.g, ln.name)
         IN IF idx # -1
            THEN [r.g EXCEPT ![idx + 1].valence = ln.valence,
                             ![idx + 1].baseline = ln.baseline]
            ELSE r.g
    ELSE IF ln.kind = "TIP"
    THEN LET tip == parse_quoted(ln.quoted) IN
         IF tip # NULL THEN graph_add_tip(gr, ln.name, tip) ELSE gr
    ELSE IF ln.kind = "EDGE"
    THEN graph_add_edge(gr, ln.from, ln.to, ln.weight, parse_quoted(ln.quoted))
    ELSE gr

\* load_graph's loop over the lines from position k on.
RECURSIVE LoadLines(_, _, _)
LoadLines(gr, lines, k) ==
    IF k > Len(lines) THEN gr
    ELSE LET nx == LoadLine(gr, lines[k]) IN Then(nx, LoadLines(nx, lines, k + 1))

\* load_graph: the value returned and the graph after the call.
load_graph(gr, f) ==
    IF ~f.exists THEN [ret |-> 0, g |-> gr]
    ELSE [ret |-> 1, g |-> LoadLines(gr, f.lines, 1)]

(* ---------------- seed_defaults_if_empty ---------------- *)

\* The default tip and procedure texts are abbreviated to a letter and a digit:
\* the code only copies them, and none holds a quote or a backslash.
SeedNodes ==
    << <<Overwhelmed, -950, 8500>>, <<Anxious, -700, 7000>>, <<Frustrated, -600, 6000>>,
       <<Angry, -700, 6500>>, <<Sad, -800, 6000>>, <<Lonely, -500, 5000>>,
       <<Grounded, -100, 3000>>, <<Calm, 600, 3000>>, <<Hopeful, 700, 2500>>,
       <<Happy, 1000, 1500>>, <<Peaceful, 900, 1500>> >>

SeedTips ==
    << <<Overwhelmed, <<"t","a">> >>, <<Overwhelmed, <<"t","b">> >>,
       <<Anxious, <<"t","c">> >>, <<Anxious, <<"t","d">> >>,
       <<Frustrated, <<"t","e">> >>, <<Frustrated, <<"t","f">> >>,
       <<Angry, <<"t","g">> >>, <<Sad, <<"t","h">> >>, <<Sad, <<"t","i">> >>,
       <<Lonely, <<"t","j">> >>, <<Grounded, <<"t","k">> >>, <<Calm, <<"t","l">> >>,
       <<Hopeful, <<"t","m">> >>, <<Happy, <<"t","n">> >>, <<Peaceful, <<"t","o">> >> >>

\* "5 grounding breaths & plant feet"
ProcGround == <<"p","a">>

SeedEdges ==
    << <<Overwhelmed, Grounded, 10, ProcGround>>, <<Grounded, Calm, 15, <<"p","b">> >>,
       <<Calm, Happy, 15, <<"p","c">> >>, <<Calm, Peaceful, 10, <<"p","d">> >>,
       <<Anxious, Grounded, 12, <<"p","e">> >>, <<Anxious, Frustrated, 18, NULL>>,
       <<Frustrated, Calm, 15, <<"p","f">> >>, <<Frustrated, Angry, 20, <<"p","g">> >>,
       <<Angry, Grounded, 20, <<"p","h">> >>, <<Sad, Hopeful, 20, <<"p","i">> >>,
       <<Lonely, Hopeful, 25, <<"p","j">> >>,
       <<Anxious, Sad, 17, NULL>>, <<Sad, Calm, 25, <<"p","k">> >>,
       <<Hopeful, Happy, 10, NULL>> >>

RECURSIVE SeedNodesFrom(_, _)
SeedNodesFrom(gr, k) ==
    IF k > Len(SeedNodes) THEN gr
    ELSE LET nx == graph_add_node(gr, SeedNodes[k][1], SeedNodes[k][2],
                                  SeedNodes[k][3]).g
         IN Then(nx, SeedNodesFrom(nx, k + 1))

RECURSIVE SeedTipsFrom(_, _)
SeedTipsFrom(gr, k) ==
    IF k > Len(SeedTips) THEN gr
    ELSE LET nx == graph_add_tip(gr, SeedTips[k][1], SeedTips[k][2])
         IN Then(nx, SeedTipsFrom(nx, k + 1))

RECURSIVE SeedEdgesFrom(_, _)
SeedEdgesFrom(gr, k) ==
    IF k > Len(SeedEdges) THEN gr
    ELSE LET nx == graph_add_edge(gr, SeedEdges[k][1], SeedEdges[k][2],
                                  SeedEdges[k][3], SeedEdges[k][4])
         IN Then(nx, SeedEdgesFrom(nx, k + 1))

\* seed_defaults_if_empty: the graph after the call.
seed_defaults_if_empty(gr) ==
    IF Len(gr) > 0 THEN gr
    ELSE SeedEdgesFrom(SeedTipsFrom(SeedNodesFrom(gr, 1), 1), 1)

(* ---------------- interactive_menu ---------------- *)

\* const char *goals[] = {"happy","calm","peaceful","hopeful"};
PlanGoals == <<Happy, Calm, Peaceful, Hopeful>>

\* The goal loop that makes every goal a node: the graph after goals i.. .
RECURSIVE EnsureGoals(_, _)
EnsureGoals(gr, i) ==
    IF i > Len(PlanGoals) THEN gr
    ELSE LET nx == IF graph_find(gr, PlanGoals[i]) = -1
                   THEN graph_add_node(gr, PlanGoals[i], 900, 2000).g
                   ELSE gr
         IN Then(nx, EnsureGoals(nx, i + 1))

\* A mutant of the comparison: a tie replaces the best goal.
BetterOrEqual(cost, best_cost) == cost <= best_cost

\* if (cost < best_cost)
Better(cost, best_cost) == cost < best_cost

\* The selection loop over goals i.. ; b holds best_cost, best_goal, best_len,
\* best_path and the tmp_path / tmp_len pair.
RECURSIVE GoalLoop(_, _, _, _)
GoalLoop(gr, src_idx, i, b) ==
    IF i > Len(PlanGoals) THEN b
    ELSE LET gi == graph_find(gr, PlanGoals[i])
             r == run_dijkstra_personalized(gr, src_idx, gi, b.tmp)
             nx == IF Better(r.ret, b.best_cost)
                   THEN [best_cost |-> r.ret, best_goal |-> gi, best_len |-> r.out.len,
                         best_path |-> Overwrite(b.best_path,
                                                 SubSeq(r.out.path, 1, r.out.len)),
                         tmp |-> r.out]
                   ELSE [b EXCEPT !.tmp = r.out]
         IN Then(nx, GoalLoop(gr, src_idx, i + 1, nx))

\* float best_cost = FLT_MAX; int best_goal=-1; int best_len=0; int best_path[128];
NoBest ==
    [best_cost |-> FLT_MAX, best_goal |-> -1, best_len |-> 0, best_path |-> <<>>,
     tmp |-> NoOut]

\* The procedure printed for the step from node a to node b of the plan.
StepAction(gr, a, b) ==
    IF FindEdgePos(gr, a, b) = 0 THEN NULL
    ELSE NodeAt(gr, a).edges[FindEdgePos(gr, a, b)].procedure

(* ---------------- the state machine ---------------- *)

\* graph_new, and no save file yet.
Init ==
    /\ g = <<>>
    /\ file = [exists |-> FALSE, lines |-> <<>>]
    /\ last = [op |-> "new"]
    /\ ops = 0

\* A call of graph_add_node.
AddNode(name, valence, baseline) ==
    /\ ops < MaxOps
    /\ LET r == graph_add_node(g, name, valence, baseline) IN
       /\ g' = r.g
       /\ last' = [op |-> "addNode", name |-> name, ret |-> r.idx]
    /\ ops' = ops + 1
    /\ UNCHANGED file

\* A call of graph_add_edge.
AddEdge(from, to, weight, procedure) ==
    /\ ops < MaxOps
    /\ g' = graph_add_edge(g, from, to, weight, procedure)
    /\ last' = [op |-> "addEdge", from |-> from, to |-> to, weight |-> weight,
                procedure |-> procedure]
    /\ ops' = ops + 1
    /\ UNCHANGED file

\* A call of graph_add_tip.
AddTip(emotion, tip_text) ==
    /\ ops < MaxOps
    /\ g' = graph_add_tip(g, emotion, tip_text)
    /\ last' = [op |-> "addTip", name |-> emotion]
    /\ ops' = ops + 1
    /\ UNCHANGED file

\* Menu option 2 (option 1 reaches the same code with an inferred name): the
\* plan for emotion emo.
MenuPlan(emo) ==
    /\ ops < MaxOps
    /\ Len(emo) > 0
    /\ LET g1 == IF graph_find(g, emo) = -1
                 THEN graph_add_node(g, emo, -200, 5000).g ELSE g
           src_idx == graph_find(g1, emo)
           g2 == EnsureGoals(g1, 1)
           b == GoalLoop(g2, src_idx, 1, NoBest)
       IN /\ g' = g2
          /\ last' = IF b.best_cost = FLT_MAX
                     THEN [op |-> "plan", src |-> src_idx, outcome |-> "nopath",
                           steps |-> <<>>, goal |-> b.best_goal, cost |-> b.best_cost]
                     ELSE [op |-> "plan", src |-> src_idx, outcome |-> "path",
                           steps |-> SubSeq(b.best_path, 1, b.best_len),
                           goal |-> b.best_goal, cost |-> b.best_cost]
    /\ ops' = ops + 1
    /\ UNCHANGED file

\* A call of run_dijkstra_personalized with indices in -1..count-1 and a fresh
\* out_path / out_len pair.  (An index >= count reads and writes outside
\* dist[n]; no caller passes one and none is modelled.)
RunDijkstra(src, dest) ==
    /\ ops < MaxOps
    /\ LET r == run_dijkstra_personalized(g, src, dest, NoOut) IN
       last' = [op |-> "dijkstra", src |-> src, dest |-> dest, ret |-> r.ret,
                out |-> r.out]
    /\ ops' = ops + 1
    /\ UNCHANGED <<g, file>>

\* Menu option 4.
MenuAddTip(emo, tip_buf) ==
    /\ ops < MaxOps
    /\ Len(emo) > 0 /\ Len(tip_buf) > 0
    /\ g' = graph_add_tip(g, emo, tip_buf)
    /\ last' = [op |-> "menuTip", name |-> emo]
    /\ ops' = ops + 1
    /\ UNCHANGED file

\* Menu option 5: from, to, the y/n answer, the difficulty entered and the
\* action text entered (blank is the empty text).
MenuEditAction(from, to, yes, w, proc_buf) ==
    /\ ops < MaxOps
    /\ Len(from) > 0 /\ Len(to) > 0
    /\ IF from = Overwhelmed /\ is_positive_goal_name(to)
       THEN g' = IF yes
                 THEN graph_add_edge(
                          graph_add_edge(g, Overwhelmed, Grounded, 10, ProcGround),
                          Grounded, to, 15, NULL)
                 ELSE g
       ELSE LET ru == graph_add_node(g, from, -200, 5000)
                rv == graph_add_node(ru.g, to, -200, 5000)
                found == FindEdgePos(rv.g, ru.idx, rv.idx)
            IN g' = IF found = 0
                    THEN graph_add_edge(rv.g, from, to, w * 10,
                                        IF Len(proc_buf) > 0 THEN proc_buf ELSE NULL)
                    ELSE [rv.g EXCEPT ![ru.idx + 1].edges[found].procedure =
                                          IF Len(proc_buf) > 0 THEN proc_buf ELSE NULL]
    /\ last' = [op |-> "menuEdit", from |-> from, to |-> to]
    /\ ops' = ops + 1
    /\ UNCHANGED file

\* Menu option 6 (and the auto-save on exit): save_graph; fopen may fail.
Save(canOpen) ==
    /\ ops < MaxOps
    /\ file' = IF canOpen THEN [exists |-> TRUE, lines |-> SavedLines(g)] ELSE file
    /\ last' = [op |-> "save", ret |-> IF canOpen THEN 1 ELSE 0]
    /\ ops' = ops + 1
    /\ UNCHANGED g

\* Menu option 7 answered y: the graph is emptied, then loaded, else re-seeded.
Reload ==
    /\ ops < MaxOps
    /\ LET r == load_graph(<<>>, file) IN
       /\ g' = IF r.ret = 1 THEN r.g ELSE seed_defaults_if_empty(<<>>)
       /\ last' = [op |-> "reload", ret |-> r.ret]
    /\ ops' = ops + 1
    /\ UNCHANGED file

\* seed_defaults_if_empty at the head of interactive_menu.
Seed ==
    /\ ops < MaxOps
    /\ g' = seed_defaults_if_empty(g)
    /\ last' = [op |-> "seed"]
    /\ ops' = ops + 1
    /\ UNCHANGED file

\* main's load_graph of a save file holding lines (a file an earlier run or an
\* editor left): the records are added to the graph.
Load(lines) ==
    /\ ops < MaxOps
    /\ file' = [exists |-> TRUE, lines |-> lines]
    /\ LET r == load_graph(g, [exists |-> TRUE, lines |-> lines]) IN
       /\ g' = r.g
       /\ last' = [op |-> "load", ret |-> r.ret]
    /\ ops' = ops + 1

\* save_graph when fopen succeeded and the device takes only the first k
\* records (disk full, I/O error): no result of fprintf, fputc or fclose is
\* looked at, and 1 is returned.
SaveWriteFails(k) ==
    /\ ops < MaxOps
    /\ k < Len(SavedLines(g))
    /\ file' = [exists |-> TRUE, lines |-> SubSeq(SavedLines(g), 1, k)]
    /\ last' = [op |-> "save", ret |-> 1]
    /\ ops' = ops + 1
    /\ UNCHANGED g

\* fwrite_quoted applied to a text in hand.
WriteQuoted ==
    /\ last.op = "text"
    /\ last' = [op |-> "quoted", text |-> last.text, quoted |-> fwrite_quoted(last.text)]
    /\ UNCHANGED <<g, file, ops>>

\* parse_quoted applied to what fwrite_quoted wrote.
ParseQuoted ==
    /\ last.op = "quoted"
    /\ last' = [op |-> "parsed", text |-> last.text, quoted |-> last.quoted,
                parsed |-> parse_quoted(last.quoted)]
    /\ UNCHANGED <<g, file, ops>>

(* ---------------- inputs and specifications ---------------- *)

\* A name one character longer than the MAX_NAME_LEN-1 characters a node keeps.
LongName == [i \in 1..MAX_NAME_LEN |-> "x"]

TipText == <<"t", Quote, Backslash>>
ProcText == <<"p", Quote>>

\* The sources a search is run from: no node, the first two nodes and, in the
\* seeded graph, "sad"; every destination is tried from each.
QuerySrc == {-1, 0, 1, 4}

\* The graph store, the menu's editing and the save file.
Next ==
    \/ \E n \in {Happy, LongName} : AddNode(n, 0, 5000)
    \/ \E a \in {Overwhelmed, Happy}, b \in {Overwhelmed, Happy},
          wp \in {<<-10, NULL>>, <<10, ProcText>>, <<20, NULL>>} :
          AddEdge(a, b, wp[1], wp[2])
    \/ AddTip(Happy, TipText)
    \/ MenuAddTip(Grounded, TipText)
    \/ \E a \in {Overwhelmed, Happy}, b \in {Overwhelmed, Happy}, yes \in BOOLEAN,
          t \in {<<>>, ProcText} : MenuEditAction(a, b, yes, 1, t)
    \/ \E canOpen \in BOOLEAN : Save(canOpen)
    \/ Reload
    \/ Seed

Spec == Init /\ [][Next]_vars

\* The planner on graphs the store builds.
NextPlan ==
    \/ AddNode(Happy, -30000, 5000)
    \/ \E a \in {Grounded, Happy}, b \in {Happy, Calm}, w \in {10, 20} :
          AddEdge(a, b, w, NULL)
    \/ AddTip(Calm, TipText)
    \/ Seed
    \/ \E emo \in {Grounded, Sad} : MenuPlan(emo)
    \/ \E src \in {s \in QuerySrc : s < Len(g)}, dest \in -1..(Len(g) - 1) :
          RunDijkstra(src, dest)

SpecPlan == Init /\ [][NextPlan]_vars

\* Save files written by hand: an EDGE record with a negative weight and an
\* empty procedure, and a NODE record followed by an EDGE record with no
\* quoted part.
HandFiles ==
    {<<[kind |-> "EDGE", from |-> Sad, to |-> Calm, weight |-> -50,
        quoted |-> <<Quote, Quote>>]>>,
     <<[kind |-> "NODE", name |-> Calm, valence |-> 600, baseline |-> 3000],
       [kind |-> "EDGE", from |-> Calm, to |-> Sad, weight |-> 7, quoted |-> <<>>]>>}

\* The save file: loading what was found, saving with and without write
\* failures, and the edits in between.
NextFile ==
    \/ \E a \in {Sad, Calm}, b \in {Sad, Calm}, w \in {-25, 0, 30} :
          AddEdge(a, b, w, NULL)
    \/ AddTip(Sad, TipText)
    \/ \E lines \in HandFiles : Load(lines)
    \/ \E canOpen \in BOOLEAN : Save(canOpen)
    \/ \E k \in 0..2 : SaveWriteFails(k)
    \/ Reload

SpecFile == Init /\ [][NextFile]_vars

\* An ordinary character, the double quote and the backslash.
Chars == {"a", Quote, Backslash}

\* Every text of at most MaxLen of these characters.
Texts == UNION {[1..k -> Chars] : k \in 0..MaxLen}

\* A text of MAX_LINE ordinary characters: one more than parse_quoted's buf
\* holds before its terminator.
LongText == [i \in 1..MAX_LINE |-> "a"]

\* The quoted-text codec on its own: a tip or procedure text is written, then
\* parsed.
InitCodec ==
    /\ g = <<>>
    /\ file = [exists |-> FALSE, lines |-> <<>>]
    /\ last \in {[op |-> "text", text |-> t] : t \in Texts \cup {LongText}}
    /\ ops = 0

NextCodec ==
    \/ WriteQuoted
    \/ ParseQuoted

SpecCodec == InitCodec /\ [][NextCodec]_vars

(* ---------------- reference notions for the claims ---------------- *)

MinOf(S) == CHOOSE x \in S : \A y \in S : x <= y

EdgesOf(gr, u) == NodeAt(gr, u).edges

\* Some edge leads from node a to node b.
HasEdge(gr, a, b) == \E e \in 1..Len(EdgesOf(gr, a)) : EdgesOf(gr, a)[e].to = b

\* The nodes reachable from the set S along edges.
RECURSIVE ReachFrom(_, _)
ReachFrom(gr, S) ==
    LET T == S \cup {v \in Idx(gr) : \E u \in S : HasEdge(gr, u, v)} IN
    IF T = S THEN S ELSE ReachFrom(gr, T)

\* The cheapest personalized cost of an edge from a to b.
HopCost(gr, a, b) ==
    MinOf({PersonalizedW(gr, EdgesOf(gr, a)[e]) :
              e \in {k \in 1..Len(EdgesOf(gr, a)) : EdgesOf(gr, a)[k].to = b}})

\* The summed cost of a node sequence.
RECURSIVE PathCost(_, _)
PathCost(gr, path) ==
    IF Len(path) < 2 THEN 0
    ELSE HopCost(gr, path[1], path[2]) + PathCost(gr, Tail(path))

\* One more edge: from the least costs d of walks of at most k edges, those of
\* walks of at most k+1 edges.
WalkStep(gr, d) ==
    [v \in Idx(gr) |->
        MinOf({d[v]} \cup
              {d[u] + HopCost(gr, u, v) :
                  u \in {x \in Idx(gr) : d[x] < FLT_MAX /\ HasEdge(gr, x, v)}})]

\* k more edges (a step that changes nothing ends it: no later step would).
RECURSIVE WalkFrom(_, _, _)
WalkFrom(gr, d, k) ==
    IF k = 0 THEN d
    ELSE LET nd == WalkStep(gr, d) IN
         IF nd = d THEN d ELSE WalkFrom(gr, nd, k - 1)

\* The least cost of a walk of at most k edges from s to each node
\* (FLT_MAX where there is none).
WalkDist(gr, s, k) ==
    WalkFrom(gr, [v \in Idx(gr) |-> IF v = s THEN 0 ELSE FLT_MAX], k)

\* The path a call of run_dijkstra_personalized left in out_path[0..*out_len-1].
OutPath(out) == SubSeq(out.path, 1, out.len)

\* A node sequence from s to d along edges.
IsPath(gr, path, s, d) ==
    /\ Len(path) >= 1
    /\ path[1] = s
    /\ path[Len(path)] = d
    /\ \A i \in 1..(Len(path) - 1) : HasEdge(gr, path[i], path[i + 1])

\* The last step was a search between two nodes of the graph, d reachable from s.
ReachableQuery ==
    /\ last.op = "dijkstra"
    /\ last.src >= 0 /\ last.dest >= 0
    /\ last.dest \in ReachFrom(g, {last.src})

\* The search returned a path from src to dest whose cost is the cost returned
\* and the least cost of any walk (walks of up to count+1 edges are compared).
ShortestReturned ==
    /\ last.ret < FLT_MAX
    /\ last.out.written
    /\ IsPath(g, OutPath(last.out), last.src, last.dest)
    /\ PathCost(g, OutPath(last.out)) = last.ret
    /\ last.ret = WalkDist(g, last.src, Len(g) + 1)[last.dest]

\* No multiplier of the relaxation is negative: every valence is at least -19.
ValencesAtLeastMinus19 == \A i \in 1..Len(g) : g[i].valence >= -19000

(* ---------------- the claims ---------------- *)

\* C1: a call addEdge("overwhelmed", goal, w, p) with goal in {happy, calm,
\* hopeful, peaceful} leaves the whole graph as it was: no node is created, no
\* edge list and no tip list changes.
C1_ForbiddenNoOp ==
    [][(/\ last'.op = "addEdge"
        /\ last'.from = Overwhelmed
        /\ is_positive_goal_name(last'.to)) => g' = g]_vars

\* C1 witness: the forbidden call was made while neither endpoint was a node.
C1_Witness ==
    /\ last.op = "addEdge"
    /\ last.from = Overwhelmed
    /\ last.to = Happy
    /\ graph_find(g, Overwhelmed) = -1
    /\ graph_find(g, Happy) = -1

\* C2 (as claimed, in its plainest case of two different names): after
\* addEdge(A, B, w, _) not hit by the forbidden rule, the first edge of B whose
\* target is A has weight max(w, 0) and no procedure.
C2_MirrorLookup ==
    (/\ last.op = "addEdge"
     /\ last.from # last.to
     /\ ~(last.from = Overwhelmed /\ is_positive_goal_name(last.to)))
    => LET a == graph_find(g, last.from)
           b == graph_find(g, last.to)
           pos == FindEdgePos(g, b, a)
       IN /\ pos # 0
          /\ EdgesOf(g, b)[pos].weight = Clamp(last.weight)
          /\ EdgesOf(g, b)[pos].procedure = NULL

\* What a save followed by a load into an empty graph yields.
Reloaded(gr) == load_graph(<<>>, [exists |-> TRUE, lines |-> SavedLines(gr)]).g

NodeView(gr) ==
    {[name |-> gr[i].name, valence |-> gr[i].valence, baseline |-> gr[i].baseline,
      tips |-> gr[i].tips] : i \in 1..Len(gr)}

\* The edges without their direction: end names, weight, procedure.
EdgeView(gr) ==
    UNION {{[ends |-> {gr[i].name, NodeAt(gr, gr[i].edges[e].to).name},
             weight |-> gr[i].edges[e].weight,
             procedure |-> gr[i].edges[e].procedure] : e \in 1..Len(gr[i].edges)} :
           i \in 1..Len(gr)}

\* C3 (as claimed): saving the graph and loading the file into an empty graph
\* gives the same nodes with the same valence, baseline and tips, and the same
\* edges with the same weights and procedures.
C3_RoundTrip ==
    /\ NodeView(Reloaded(g)) = NodeView(g)
    /\ EdgeView(Reloaded(g)) = EdgeView(g)

\* C4 (as claimed): on every graph, a search between two nodes with the
\* destination reachable returns a shortest path and its cost.
C4_ShortestAnyGraph == ReachableQuery => ShortestReturned

\* C4 (amended): the same on every graph whose valences are all at least -19.
C4_ShortestNonNegative == (ReachableQuery /\ ValencesAtLeastMinus19) => ShortestReturned

\* C4 witness: a search that returned a path over at least two intermediate
\* nodes from a source with several neighbours.
C4_Witness ==
    /\ ReachableQuery
    /\ ValencesAtLeastMinus19
    /\ last.out.len >= 4
    /\ Cardinality({v \in Idx(g) : HasEdge(g, last.src, v)}) >= 2

\* C5 (as claimed): the node "overwhelmed" never has an edge to happy, calm,
\* hopeful or peaceful.
C5_NoDirectEdge ==
    \A i \in 1..Len(g) :
        g[i].name = Overwhelmed =>
            \A e \in 1..Len(g[i].edges) :
                ~is_positive_goal_name(NodeAt(g, g[i].edges[e].to).name)

\* C6 (as claimed): the weight added for an edge is its base weight times 0.85
\* exactly when the target has a tip, times 0.80 exactly when the edge carries a
\* non-empty procedure, times the valence factor.
C6_Discounts ==
    \A i \in 1..Len(g) : \A e \in 1..Len(g[i].edges) :
        LET ed == g[i].edges[e] IN
        PersonalizedW(g, ed) =
            ed.weight * (IF Len(NodeAt(g, ed.to).tips) >= 1 THEN 17 ELSE 20)
                      * (IF ed.procedure # NULL /\ ed.procedure # <<>> THEN 4 ELSE 5)
                      * (19000 + NodeAt(g, ed.to).valence)

\* The cost the search returns for goal i of the plan just made.
GoalCost(i) ==
    run_dijkstra_personalized(g, last.src, graph_find(g, PlanGoals[i]), NoOut)

\* C7: the plan is the path to a goal of least cost among the four goals, and
\* among goals of that least cost the first in the order happy, calm, peaceful,
\* hopeful.
C7_FirstCheapestGoal ==
    (last.op = "plan" /\ last.outcome = "path")
    => LET m == MinOf({GoalCost(i).ret : i \in 1..Len(PlanGoals)})
           first == MinOf({i \in 1..Len(PlanGoals) : GoalCost(i).ret = m})
       IN /\ last.cost = m
          /\ last.goal = graph_find(g, PlanGoals[first])
          /\ last.steps = OutPath(GoalCost(first).out)

\* C7 witness: two goals tie at the least cost and the plan goes to the one that
\* comes first in the goal order, though it is the later node of the graph.
C7_Witness ==
    /\ last.op = "plan" /\ last.outcome = "path"
    /\ \E i \in 1..Len(PlanGoals) : \E j \in (i + 1)..Len(PlanGoals) :
          /\ GoalCost(i).ret = last.cost
          /\ GoalCost(j).ret = last.cost
          /\ last.goal = graph_find(g, PlanGoals[i])
          /\ graph_find(g, PlanGoals[j]) < graph_find(g, PlanGoals[i])

\* C8: a search whose destination is not reachable returns FLT_MAX and leaves
\* out_path and out_len untouched; a plan with no reachable goal is "no path"
\* with nothing rendered; a rendered plan is a path from the source to a goal
\* with a finite cost.
C8_NoPathReported ==
    /\ (/\ last.op = "dijkstra" /\ last.src >= 0 /\ last.dest >= 0
        /\ last.dest \notin ReachFrom(g, {last.src}))
       => (last.ret = FLT_MAX /\ last.out = NoOut)
    /\ (/\ last.op = "plan"
        /\ \A i \in 1..Len(PlanGoals) :
              graph_find(g, PlanGoals[i]) \notin ReachFrom(g, {last.src}))
       => (last.outcome = "nopath" /\ last.steps = <<>>)
    /\ (last.op = "plan" /\ last.outcome = "path")
       => /\ last.cost < FLT_MAX
          /\ is_positive_goal_name(NodeAt(g, last.goal).name)
          /\ IsPath(g, last.steps, last.src, last.goal)

\* C8 witness: a plan was asked for from a node with no way to any goal.
C8_Witness ==
    /\ last.op = "plan"
    /\ last.outcome = "nopath"
    /\ \A i \in 1..Len(PlanGoals) :
          graph_find(g, PlanGoals[i]) \notin ReachFrom(g, {last.src})

\* C9 (as claimed): a search given an invalid node reference does not end like
\* a search whose destination is unreachable (FLT_MAX returned, nothing written).
C9_InvalidDistinct ==
    (last.op = "dijkstra" /\ (last.src < 0 \/ last.dest < 0))
    => ~(last.ret = FLT_MAX /\ last.out = NoOut)

\* Some node stores the name that name is stored as.
Present(gr, name) == \E i \in 1..Len(gr) : gr[i].name = StoredName(name)

\* C10 (as claimed): no two nodes have the same stored name, and addNode with a
\* name already present returns the existing node and changes nothing.
C10_UniqueNames ==
    [][/\ \A i \in 1..Len(g') : \A j \in 1..Len(g') : g'[i].name = g'[j].name => i = j
       /\ (last'.op = "addNode" /\ Present(g, last'.name))
          => (g' = g /\ last'.ret >= 0 /\ NodeAt(g, last'.ret).name = StoredName(last'.name))
      ]_vars

C12_CodecRoundTrip ==
    last.op = "parsed" => last.parsed = last.text

\* C12 on the texts of at most MaxLen characters: every combination of
\* ordinary characters, quotes and backslashes comes back unchanged.
C12_ShortTextsRoundTrip ==
    (last.op = "parsed" /\ Len(last.text) <= MaxLen) => last.parsed = last.text

\* C13 (as claimed): a save leaves the graph unchanged, and returns success
\* only when the file holds every NODE, TIP and EDGE record save_graph writes
\* for the graph (a failed write is reported as failure).
C13_SaveFailureReported ==
    [][(last'.op = "save")
       => /\ g' = g
          /\ (last'.ret = 1) => file' = [exists |-> TRUE, lines |-> SavedLines(g)]]_vars

\* C14 (as claimed): of two stored edges with the same base weight, the same
\* tip-presence of the target and the same procedure-presence, the one into
\* the target of higher valence has a personalized cost no greater than the
\* other's.
C14_ValenceBiasDirection ==
    \A a \in Idx(g), b \in Idx(g) :
        \A i \in 1..Len(EdgesOf(g, a)), j \in 1..Len(EdgesOf(g, b)) :
            LET e1 == EdgesOf(g, a)[i]
                e2 == EdgesOf(g, b)[j]
            IN (/\ e1.weight = e2.weight
                /\ TipMul(g, e1.to) = TipMul(g, e2.to)
                /\ ProcMul(e1) = ProcMul(e2)
                /\ NodeAt(g, e1.to).valence > NodeAt(g, e2.to).valence)
               => PersonalizedW(g, e1) <= PersonalizedW(g, e2)

\* The node k predecessor links back from cur (-1 once the chain has ended).
RECURSIVE Back(_, _, _)
Back(prev, cur, k) ==
    IF k = 0 \/ cur = -1 THEN cur ELSE Back(prev, prev[cur], k - 1)

\* path runs from s to d, names no node twice and has at most n nodes.
SimpleFromTo(path, s, d, n) ==
    /\ Len(path) >= 1 /\ Len(path) <= n
    /\ path[1] = s /\ path[Len(path)] = d
    /\ \A i \in 1..Len(path) : \A j \in 1..Len(path) : path[i] = path[j] => i = j

\* C15: a search from a valid source to a valid destination ends: its main
\* loop visits at most n nodes and the predecessor chain from the destination
\* ends within n links; a path it returns runs from the source to the
\* destination, names no node twice and has at most n nodes, and so does the
\* path a plan shows.
C15_ChainEndsNoRevisit ==
    /\ (last.op = "dijkstra" /\ last.src >= 0 /\ last.dest >= 0)
       => LET st == DijkstraFinal(g, last.src, last.dest) IN
          /\ Cardinality({i \in Idx(g) : st.visited[i]}) <= Len(g)
          /\ Back(st.prev, last.dest, Len(g)) = -1
          /\ (last.ret # FLT_MAX)
             => /\ last.out.written
                /\ SimpleFromTo(OutPath(last.out), last.src, last.dest, Len(g))
    /\ (last.op = "plan" /\ last.outcome = "path")
       => SimpleFromTo(last.steps, last.src, last.goal, Len(g))

\* C15 witness: a search returned a path of at least four nodes every link of
\* which can be walked back (each hop lies on a cycle of the graph).
C15_Witness ==
    /\ last.op = "dijkstra" /\ last.src >= 0 /\ last.dest >= 0
    /\ last.ret # FLT_MAX
    /\ last.out.len >= 4
    /\ \A i \in 1..(last.out.len - 1) :
          HasEdge(g, last.out.path[i + 1], last.out.path[i])

====
